---- MODULE Spec2Model ----
(***************************************************************************)
(* Model of the car-scrapers acquisition pipeline:                         *)
(*   - cnb_scraper.py: main() (load, discover, filter, per-URL loop with   *)
(*     retries, checkpoints, final merge/dedup/sort) and the S3 helpers    *)
(*     download_existing_cnb_csv / upload_updated_cnb_csv;                 *)
(*   - bat_scraper.py: save_outputs (merge of bat.json with a new batch).  *)
(*                                                                         *)
(* Specifications: Spec (a run of main()), SpecMerge (the two merges as    *)
(* functions of their inputs), SpecBat (save_outputs write by write),      *)
(* SpecSitemap (get_sitemap_urls step by step), SpecFields (the selector   *)
(* cascade of extract_all_auction_data), SpecYear (the year resolution of  *)
(* both scrapers) and SpecCollect (collect_auction_urls pass by pass).     *)
(*                                                                         *)
(* Data abstraction.  A row carries the columns the orchestration reads:   *)
(* auction_url, year, model, views, bids.  A missing value of a DataFrame  *)
(* (None / NaN) is NA for year and the text "NaN" for a text column; a CSV *)
(* file holds an empty cell instead.  Numeric formatting (2015 / 2015.0)   *)
(* is abstracted to the numeric value.                                     *)
(***************************************************************************)
EXTENDS Integers, Sequences, FiniteSets, TLC

\* ---------------------------------------------------------------- bounds
\* Scaled stand-ins for MAX_AUCTIONS_PER_RUN = 300 and the checkpoint
\* interval 50 of cnb_scraper.py; the code only compares and takes
\* remainders with them.
MAX_AUCTIONS_PER_RUN == 3
CHECKPOINT_EVERY == 2
\* Longest discovery result (sitemap list) the model enumerates.
MaxDiscovered == 4
\* Latest minute the wall clock reaches (backup keys carry the minute).
MaxMinute == 1
\* Most operations the environment makes fail in one run (a load, a page
\* open, the navigation to one URL, a backup copy, an upload).
MaxFaults == 1

\* ------------------------------------------------------- program constants
\* Seconds: the pacing sleep of the per-URL loop, the sleep between two
\* page.goto attempts for one URL, and the sleep between two browser
\* attempts at the sitemap.
SLEEP_BETWEEN_AUCTIONS == 3
NAV_RETRY_SLEEP == 5
SITEMAP_RETRY_SLEEP == 10

\* ------------------------------------------------------------ vocabulary
URLs == {"A", "B", "C"}
NA == 0
\* What an auction page can show: the h1 title, the views text, the bid
\* count and the end date.  One page per way the acceptance test of main()
\* can come out, and one auction that has not ended.
Pages ==
    {[model |-> "M", views |-> "7", bids |-> 3, sale_date |-> "ended"],
     [model |-> "",  views |-> "0", bids |-> 0, sale_date |-> "ended"],
     [model |-> "",  views |-> "",  bids |-> 3, sale_date |-> "ended"],
     [model |-> "",  views |-> "",  bids |-> 0, sale_date |-> "ended"],
     [model |-> "M", views |-> "7", bids |-> 3, sale_date |-> ""]}

\* extract_year_from_url on the model's URL alphabet: A and B carry a year
\* in their slug, C carries none.
extract_year_from_url(url) ==
    CASE url = "A" -> 2019
      [] url = "B" -> 2015
      [] OTHER -> NA

RECURSIVE SeqsUpTo(_, _)
SeqsUpTo(S, n) ==
    IF n = 0 THEN {<<>>}
    ELSE LET shorter == SeqsUpTo(S, n - 1)
         IN shorter \cup {Append(s, x) : s \in {t \in shorter : Len(t) = n - 1}, x \in S}

Range(s) == {s[i] : i \in 1..Len(s)}

\* --------------------------------------------------------- CSV round trip
\* DataFrame.to_csv: a missing value and an empty text are both written as
\* an empty cell.
to_csv_row(r) ==
    [r EXCEPT !.model = IF @ = "NaN" THEN "" ELSE @,
              !.views = IF @ = "NaN" THEN "" ELSE @]

to_csv(df) == [i \in 1..Len(df) |-> to_csv_row(df[i])]

\* pd.read_csv: an empty cell is read back as NaN.
read_csv_row(r) ==
    [r EXCEPT !.model = IF @ = "" THEN "NaN" ELSE @,
              !.views = IF @ = "" THEN "NaN" ELSE @]

read_csv(file) == [i \in 1..Len(file) |-> read_csv_row(file[i])]

\* set(df['auction_url'].dropna().values)
existing_urls_of(df) == {df[i].auction_url : i \in 1..Len(df)}

\* ------------------------------------------------------------ the merges
RECURSIVE SelectIdx(_, _, _)
SelectIdx(df, keep, i) ==
    IF i > Len(df) THEN <<>>
    ELSE (IF i \in keep THEN <<df[i]>> ELSE <<>>) \o SelectIdx(df, keep, i + 1)

\* drop_duplicates with keep='last' instead of keep='first'
drop_duplicates_keep_last(df) ==
    SelectIdx(df,
              {i \in 1..Len(df) :
                 \A j \in (i + 1)..Len(df) : df[j].auction_url # df[i].auction_url},
              1)

\* drop_duplicates(subset=['auction_url'], keep='first')
drop_duplicates(df) ==
    SelectIdx(df,
              {i \in 1..Len(df) :
                 \A j \in 1..(i - 1) : df[j].auction_url # df[i].auction_url},
              1)

\* sort_values('year', ascending=False, na_position='last'): the default
\* sort kind is not stable, so rows with equal year may come out in any
\* order.
YearBefore(r1, r2) ==
    \/ r2.year = NA
    \/ r1.year # NA /\ r1.year >= r2.year

RECURSIVE SortOutcomes(_)
SortOutcomes(idx_df) ==
    \* idx_df: a set of <<index, row>> pairs still to be placed
    IF idx_df = {} THEN {<<>>}
    ELSE UNION {
           {<<p[2]>> \o t : t \in SortOutcomes(idx_df \ {p})} :
           p \in {q \in idx_df : \A o \in idx_df : YearBefore(q[2], o[2])}}

sort_values(df) == SortOutcomes({<<i, df[i]>> : i \in 1..Len(df)})

\* pd.concat([existing_df, pd.DataFrame(new_rows)], ignore_index=True)
concat(df, rows) == df \o rows

\* ------------------------------------------------------------------ state
VARIABLES
    s3,                  \* the durable cnb.csv: [present, rows]
    backups,             \* backups/cnb.csv_<minute>: minute -> rows
    now,                 \* wall clock, in minutes
    pc,                  \* position of main()
    existing_df,         \* main: existing_df
    existing_urls,       \* main: existing_urls
    all_urls,            \* main: all_urls
    new_urls,            \* main: new_urls (after the cap)
    new_rows,            \* main: new_rows
    i,                   \* main: 1-based position of the loop in new_urls
    page,                \* main: page ("none" / "open")
    retry,               \* main: retry of the navigation loop
    successful, failed, skipped_in_progress,
    result,              \* what main() returned / raised
    faults,              \* failures injected so far
    s3_before,           \* history: the durable copy when the run started
    fetched,             \* history: positions of new_urls page.goto was called
                         \* for, in the order of their first call
    open_failed,         \* history: positions of new_urls no page opened for
    nav_ok,              \* history: URLs some page.goto succeeded for
    seen,                \* history: URLs whose page showed an ended auction
                         \* with a title, a views text or a bid
    m_dataset,           \* merge check: the persisted rows
    m_batch,             \* merge check: the batch of a run
    m_bat,               \* merge check: what save_outputs wrote
    m_cnb,               \* merge check: what the cnb final merge wrote
    open_pages,          \* pages open in the browser context of main()
    last_upload,         \* history: the latest call of upload_updated_cnb_csv
    upload_failed,       \* history: some upload of this run returned False
    load_outcome,        \* history: how download_existing_cnb_csv ended
    pacing,              \* history: seconds main() slept in its finally blocks
    appended,            \* history: the iteration at hand appended a record
    nav_log,             \* history: the page.goto calls for the URL at hand,
                         \* each with its outcome and the sleep after it
    bat_pc,              \* save_outputs: position
    deduped,             \* save_outputs: deduped
    bat_json,            \* the file bat.json: [rows, whole]
    bat_csv,             \* the file bat.csv: [rows, whole]
    sm_pc,               \* get_sitemap_urls: position
    attempt,             \* get_sitemap_urls: attempt of the browser loop
    xml_string,          \* get_sitemap_urls: xml_string
    sm_result,           \* what get_sitemap_urls returned / raised
    sm_log,              \* history: the browser attempts at the sitemap, each
                         \* with its outcome and the sleep after it
    fld_pc,              \* field extraction check: position
    fld_page,            \* field extraction check: the auction page
    fld_data,            \* extract_all_auction_data: data
    yr_pc,               \* year resolution check: position
    yr_in,               \* year resolution check: the URL, title and items
    yr_out,              \* year resolution check: the year of the record
    col_pc,              \* collect_auction_urls: position
    col_urls,            \* collect_auction_urls: urls, as tile positions
    col_loaded,          \* collect_auction_urls: loaded
    consecutive_failures, \* collect_auction_urls: consecutive_failures
    tiles,               \* tiles of the results page when last counted
    shrank,              \* history: some count was below the one before it
    passes               \* history: passes of the while loop so far

cnb_vars == <<s3, backups, now, pc, existing_df, existing_urls, all_urls,
              new_urls, new_rows, i, page, retry, successful, failed,
              skipped_in_progress, result, faults, s3_before, fetched,
              open_failed, nav_ok, seen, open_pages, last_upload,
              upload_failed, load_outcome, pacing, appended, nav_log>>
merge_vars == <<m_dataset, m_batch, m_bat, m_cnb>>
bat_vars == <<bat_pc, deduped, bat_json, bat_csv>>
sm_vars == <<sm_pc, attempt, xml_string, sm_result, sm_log>>
fld_vars == <<fld_pc, fld_page, fld_data>>
yr_vars == <<yr_pc, yr_in, yr_out>>
col_vars == <<col_pc, col_urls, col_loaded, consecutive_failures, tiles,
              shrank, passes>>
fn_vars == <<fld_vars, yr_vars, col_vars>>
side_vars == <<merge_vars, bat_vars, sm_vars, fn_vars>>
vars == <<cnb_vars, side_vars>>

store == <<s3, backups, now>>
loaded == <<existing_df, existing_urls, load_outcome>>
counters == <<successful, failed, skipped_in_progress>>
uploads == <<last_upload, upload_failed>>
history == <<s3_before, fetched, open_failed, nav_ok, seen, nav_log,
             side_vars>>

NoFile == [present |-> FALSE, rows |-> <<>>]
NoUpload ==
    [kind |-> "none", at |-> 0, df |-> <<>>, ret |-> TRUE, copy_ok |-> TRUE]

\* The record extract_all_auction_data returns for a page.  The year comes
\* from the URL, else from a (19|20)dd token of the title; no title of
\* Pages holds one.
extract_all_auction_data(shown, url) ==
    [auction_url |-> url,
     year |-> extract_year_from_url(url),
     model |-> shown.model,
     views |-> shown.views,
     bids |-> shown.bids,
     sale_date |-> shown.sale_date]

\* an acceptance test that lets every record through
meaningful_always(data) == TRUE

\* if data['model'] or data['views'] or data['bids']
meaningful(data) == data.model # "" \/ data.views # "" \/ data.bids # 0

\* a filter that lets every discovered URL through
filter_keep_all(urls, known) == urls

\* new_urls = [url for url in all_urls if url not in existing_urls]
filter_new(urls, known) == SelectSeq(urls, LAMBDA u : u \notin known)

\* a cap that lets one URL too many through
cap_one_more(urls) ==
    SubSeq(urls, 1, IF Len(urls) < MAX_AUCTIONS_PER_RUN + 1 THEN Len(urls)
                    ELSE MAX_AUCTIONS_PER_RUN + 1)

\* new_urls[:MAX_AUCTIONS_PER_RUN]
cap(urls) ==
    SubSeq(urls, 1, IF Len(urls) < MAX_AUCTIONS_PER_RUN THEN Len(urls)
                    ELSE MAX_AUCTIONS_PER_RUN)

\* a final flush that writes what was loaded and forgets the batch
final_merge_without_batch(df, rows) == sort_values(drop_duplicates(df))

\* a final merge that forgets the rows loaded at the start of the run
final_merge_new_only(df, rows) == sort_values(drop_duplicates(rows))

\* The merge of the final flush: concat, drop_duplicates, sort_values.
final_merge(df, rows) == sort_values(drop_duplicates(concat(df, rows)))

\* The dataset of an in-loop checkpoint: concat only.
checkpoint_df(df, rows) == concat(df, rows)

\* a run that never checkpoints
checkpoint_due_never(rows) == FALSE

\* if len(new_rows) > 0 and len(new_rows) % 50 == 0
checkpoint_due(rows) == Len(rows) > 0 /\ Len(rows) % CHECKPOINT_EVERY = 0

\* ----------------------------------------------------- durable copy, Init
\* The durable copy at the start of a run: none (first run), or the file an
\* earlier run left after accepting the record of B from a page that showed
\* bids only (its title and views cells are empty in the file).
PriorBatches ==
    {<<extract_all_auction_data(
         [model |-> "", views |-> "", bids |-> 3, sale_date |-> "ended"], "B")>>}
PriorFiles ==
    {NoFile} \cup
    {[present |-> TRUE, rows |-> to_csv(d)] :
       d \in UNION {final_merge(<<>>, b) : b \in PriorBatches}}

\* Discovery results: the sitemap lists auctions in site order, and an entry
\* may occur twice.
SiteOrder == <<"A", "B", "C">>
Rank(u) == CHOOSE k \in 1..Len(SiteOrder) : SiteOrder[k] = u
Discoveries ==
    {s \in SeqsUpTo(URLs, MaxDiscovered) :
       /\ \A k \in 1..(Len(s) - 1) : Rank(s[k]) <= Rank(s[k + 1])
       /\ \A k \in 1..(Len(s) - 2) : s[k] # s[k + 2]}

NotRun == [done |-> FALSE, rows |-> <<>>]

MergeIdle ==
    /\ m_dataset = <<>>
    /\ m_batch = <<>>
    /\ m_bat = NotRun
    /\ m_cnb = NotRun

\* A local file of the bat scraper: whole is FALSE while the text of the
\* file ends before the end of the document.
NoBatFile == [present |-> FALSE, rows |-> <<>>, whole |-> TRUE]
BatFile(rows) == [present |-> TRUE, rows |-> rows, whole |-> TRUE]

BatIdle ==
    /\ bat_pc = "idle"
    /\ deduped = <<>>
    /\ bat_json = NoBatFile
    /\ bat_csv = NoBatFile

\* xml_string before its first assignment
Unset == [bound |-> FALSE, wrapper |-> FALSE, locs |-> <<>>]

SitemapIdle ==
    /\ sm_pc = "idle"
    /\ attempt = 0
    /\ xml_string = Unset
    /\ sm_result = "none"
    /\ sm_log = <<>>

\* An auction page as extract_all_auction_data reads it.  bid_texts: the
\* stripped inner text of the element of each of the four bid selectors,
\* in their order ("" when the selector finds no element or an empty one).
\* views_text: the inner text of li span.views, character by character
\* (<<>> when there is no such element).  raw_amount / raw_views: the amount
\* after "Sold for" and the number before "views" in the text of the page
\* body ("" / <<>> when the text holds no such pattern).
BlankPage ==
    [bid_texts |-> <<"", "", "", "">>, views_text |-> <<>>,
     raw_amount |-> "", raw_views |-> <<>>]
BlankData == [sale_amount |-> "", views |-> <<>>]

FieldsIdle ==
    /\ fld_pc = "idle"
    /\ fld_page = BlankPage
    /\ fld_data = BlankData

\* No regular expression of the year resolution matches anything.
NoMatch == -1
NoTitle == [starts |-> FALSE, tokens |-> <<>>]
NoYearInput ==
    [site |-> "none", url_hits |-> <<>>, title |-> NoTitle, group_items |-> <<>>]

YearIdle ==
    /\ yr_pc = "idle"
    /\ yr_in = NoYearInput
    /\ yr_out = NA

CollectIdle ==
    /\ col_pc = "idle"
    /\ col_urls = <<>>
    /\ col_loaded = 0
    /\ consecutive_failures = 0
    /\ tiles = 0
    /\ shrank = FALSE
    /\ passes = 0

FnIdle == FieldsIdle /\ YearIdle /\ CollectIdle

\* load_outcome before download_existing_cnb_csv is called
NotLoaded == [exc |-> "unset", not_found |-> FALSE]

\* main() before its first statement, on no durable copy
MainIdle ==
    /\ s3 = NoFile
    /\ s3_before = NoFile
    /\ backups = <<>>
    /\ now = 0
    /\ pc = "idle"
    /\ existing_df = <<>>
    /\ existing_urls = {}
    /\ all_urls = <<>>
    /\ new_urls = <<>>
    /\ new_rows = <<>>
    /\ i = 0
    /\ page = "none"
    /\ retry = 0
    /\ successful = 0
    /\ failed = 0
    /\ skipped_in_progress = 0
    /\ result = "running"
    /\ faults = 0
    /\ fetched = <<>>
    /\ open_failed = {}
    /\ nav_ok = {}
    /\ seen = {}
    /\ open_pages = 0
    /\ last_upload = NoUpload
    /\ upload_failed = FALSE
    /\ load_outcome = NotLoaded
    /\ pacing = 0
    /\ appended = FALSE
    /\ nav_log = <<>>

Init ==
    /\ MergeIdle
    /\ BatIdle
    /\ SitemapIdle
    /\ FnIdle
    /\ open_pages = 0
    /\ last_upload = NoUpload
    /\ upload_failed = FALSE
    /\ s3 \in PriorFiles
    /\ s3_before = s3
    /\ open_failed = {}
    /\ seen = {}
    /\ backups = <<>>
    /\ now = 0
    /\ pc = "start"
    /\ existing_df = <<>>
    /\ existing_urls = {}
    /\ all_urls = <<>>
    /\ new_urls = <<>>
    /\ new_rows = <<>>
    /\ i = 0
    /\ page = "none"
    /\ retry = 0
    /\ successful = 0
    /\ failed = 0
    /\ skipped_in_progress = 0
    /\ result = "running"
    /\ faults = 0
    /\ fetched = <<>>
    /\ nav_ok = {}
    /\ load_outcome = NotLoaded
    /\ pacing = 0
    /\ appended = FALSE
    /\ nav_log = <<>>

\* ------------------------------------------------------------ persistence
Ticks == IF now < MaxMinute THEN {0, 1} ELSE {0}
UploadOutcomes == {"ok", "csv_failed", "put_failed", "remove_failed"}
CanFail == faults < MaxFaults

\* What the environment does to one upload: whether the minute changed
\* since the last look at the clock, whether copy_object worked, and how
\* far the function got.
UploadFaults(env) ==
    (IF env.outcome = "ok" THEN 0 ELSE 1) + (IF env.copy_ok THEN 0 ELSE 1)
UploadEnvs ==
    {env \in [tick : Ticks, copy_ok : BOOLEAN, outcome : UploadOutcomes] :
       /\ faults + UploadFaults(env) <= MaxFaults
       /\ (~s3.present \/ env.outcome = "csv_failed") => env.copy_ok}

\* an upload that overwrites the durable copy without copying it first
upload_without_backup(df, env) ==
    [s3 |-> IF env.outcome \in {"ok", "remove_failed"}
            THEN [present |-> TRUE, rows |-> to_csv(df)] ELSE s3,
     backups |-> backups,
     now |-> now + env.tick,
     ret |-> (env.outcome = "ok")]

\* upload_updated_cnb_csv(df): write the temp file, copy the durable copy
\* to backups/ (errors swallowed), put the temp file, remove it.  Returns
\* the new store and the function's return value.
upload_updated_cnb_csv(df, env) ==
    LET t == now + env.tick
        made == env.outcome # "csv_failed" /\ s3.present /\ env.copy_ok
        put == env.outcome \in {"ok", "remove_failed"}
    IN [s3 |-> IF put THEN [present |-> TRUE, rows |-> to_csv(df)] ELSE s3,
        backups |-> IF made
                    THEN [k \in (DOMAIN backups) \cup {t} |->
                            IF k = t THEN s3.rows ELSE backups[k]]
                    ELSE backups,
        now |-> t,
        ret |-> (env.outcome = "ok")]

\* ---------------------------------------------------------------- main()
\* How s3.download_file / pd.read_csv can end: no exception, a ClientError,
\* or another exception.  not_found says that the error code of the
\* ClientError is '404' or 'NoSuchKey', or that the text of the other
\* exception contains "404", "Not Found" or "NoSuchKey".  On no durable
\* copy download_file raises the ClientError with code 404; every other
\* exception is a fault of the environment (on no durable copy an
\* exception with such a text ends like the ClientError with code 404).
LoadEnvs ==
    (IF s3.present
     THEN {[exc |-> "none", not_found |-> FALSE]}
     ELSE {[exc |-> "ClientError", not_found |-> TRUE]})
    \cup (IF CanFail
          THEN {[exc |-> "ClientError", not_found |-> FALSE],
                [exc |-> "Exception", not_found |-> FALSE]}
               \cup (IF s3.present
                     THEN {[exc |-> "Exception", not_found |-> TRUE]}
                     ELSE {})
          ELSE {})
LoadFaults(env) ==
    IF env.exc = "none" \/ (env.exc = "ClientError" /\ env.not_found)
    THEN 0 ELSE 1

\* download_existing_cnb_csv(): the data frame and the key set it returns,
\* or the exception it lets through
download_existing_cnb_csv(env) ==
    IF env.exc = "none"
    THEN LET df == read_csv(s3.rows)
         IN [raised |-> FALSE, df |-> df, existing_urls |-> existing_urls_of(df)]
    ELSE IF env.not_found
    THEN [raised |-> FALSE, df |-> <<>>, existing_urls |-> {}]
    ELSE [raised |-> TRUE, df |-> <<>>, existing_urls |-> {}]

\* existing_df, existing_urls = download_existing_cnb_csv()
Load ==
    /\ pc = "start"
    /\ \E env \in LoadEnvs :
         LET got == download_existing_cnb_csv(env) IN
         /\ load_outcome' = env
         /\ faults' = faults + LoadFaults(env)
         /\ IF got.raised
            THEN /\ pc' = "fatal"
                 /\ result' = "exception"
                 /\ UNCHANGED <<existing_df, existing_urls>>
            ELSE /\ pc' = "discover"
                 /\ result' = result
                 /\ existing_df' = got.df
                 /\ existing_urls' = got.existing_urls
    /\ UNCHANGED <<store, all_urls, new_urls, new_rows, i, page, retry,
                   counters, history, open_pages, uploads, pacing, appended>>

\* a run that enters the loop although no discovered URL is new
Discover_always_loops ==
    /\ pc = "discover"
    /\ \E urls \in Discoveries :
         LET new == filter_new(urls, existing_urls) IN
         /\ all_urls' = urls
         /\ IF urls = <<>>
            THEN pc' = "done" /\ result' = "False" /\ UNCHANGED <<new_urls, i>>
            ELSE /\ pc' = "new_page" /\ result' = result /\ i' = 1
                 /\ new_urls' = IF new = <<>> THEN cap(urls) ELSE cap(new)
    /\ UNCHANGED <<store, loaded, new_rows, page, retry, counters, faults,
                   history, open_pages, uploads, pacing, appended>>

\* get_sitemap_urls (an exception of it leaves main()), the filter for new
\* URLs and the cap
Discover ==
    /\ pc = "discover"
    /\ \/ /\ CanFail
          /\ pc' = "fatal"
          /\ result' = "exception"
          /\ faults' = faults + 1
          /\ UNCHANGED <<all_urls, new_urls, i>>
       \/ /\ faults' = faults
          /\ \E urls \in Discoveries :
               LET new == filter_new(urls, existing_urls) IN
               /\ all_urls' = urls
               /\ IF urls = <<>>
                  THEN pc' = "done" /\ result' = "False" /\ UNCHANGED <<new_urls, i>>
                  ELSE IF new = <<>>
                  THEN pc' = "done" /\ result' = "True" /\ UNCHANGED <<new_urls, i>>
                  ELSE /\ pc' = "new_page" /\ result' = result
                       /\ new_urls' = cap(new) /\ i' = 1
    /\ UNCHANGED <<store, loaded, new_rows, page, retry, counters, history,
                   open_pages, uploads, pacing, appended>>

\* a page that fails to open without being counted as failed
NewPage_uncounted ==
    /\ pc = "new_page"
    /\ \E opened \in {TRUE} \cup (IF CanFail THEN {FALSE} ELSE {}) :
         IF opened
         THEN /\ page' = "open" /\ retry' = 0 /\ pc' = "goto"
              /\ UNCHANGED <<failed, faults>>
         ELSE /\ page' = page /\ retry' = retry /\ pc' = "finally"
              /\ failed' = failed /\ faults' = faults + 1
    /\ open_failed' = IF pc' = "goto" THEN open_failed ELSE open_failed \cup {i}
    /\ open_pages' = IF pc' = "goto" THEN open_pages + 1 ELSE open_pages
    /\ nav_log' = IF pc' = "goto" THEN <<>> ELSE nav_log
    /\ UNCHANGED <<store, loaded, all_urls, new_urls, new_rows, i, successful,
                   skipped_in_progress, result, s3_before, nav_ok, fetched,
                   seen, side_vars, uploads, pacing, appended>>

\* page = context.new_page()
NewPage ==
    /\ pc = "new_page"
    /\ \E opened \in {TRUE} \cup (IF CanFail THEN {FALSE} ELSE {}) :
         IF opened
         THEN /\ page' = "open" /\ retry' = 0 /\ pc' = "goto"
              /\ UNCHANGED <<failed, faults>>
         ELSE /\ page' = page /\ retry' = retry /\ pc' = "finally"
              /\ failed' = failed + 1 /\ faults' = faults + 1
    /\ open_failed' = IF pc' = "goto" THEN open_failed ELSE open_failed \cup {i}
    /\ open_pages' = IF pc' = "goto" THEN open_pages + 1 ELSE open_pages
    /\ nav_log' = IF pc' = "goto" THEN <<>> ELSE nav_log
    /\ UNCHANGED <<store, loaded, all_urls, new_urls, new_rows, i, successful,
                   skipped_in_progress, result, s3_before, nav_ok, fetched,
                   seen, side_vars, uploads, pacing, appended>>

\* a navigation loop that waits longer after each failed attempt
retry_sleep_backoff(n) == NAV_RETRY_SLEEP * (n + 1)

\* time.sleep(5) after a failed page.goto that was not the last attempt
retry_sleep(n) == NAV_RETRY_SLEEP

\* a navigation loop that swallows the last failure and goes on to extract
Goto_swallows_failure ==
    /\ pc = "goto"
    /\ fetched' = IF retry = 0 THEN Append(fetched, i) ELSE fetched
    /\ \E loaded_ok \in {TRUE} \cup (IF retry > 0 \/ CanFail THEN {FALSE} ELSE {}) :
         IF loaded_ok
         THEN /\ pc' = "extract"
              /\ nav_ok' = nav_ok \cup {new_urls[i]}
              /\ nav_log' = Append(nav_log, [ok |-> TRUE, wait |-> 0])
              /\ UNCHANGED <<retry, failed, faults>>
         ELSE /\ nav_ok' = nav_ok
              /\ faults' = IF retry = 0 THEN faults + 1 ELSE faults
              /\ IF retry = 2
                 THEN /\ pc' = "extract" /\ failed' = failed /\ retry' = retry
                      /\ nav_log' = Append(nav_log, [ok |-> FALSE, wait |-> 0])
                 ELSE /\ pc' = "goto" /\ failed' = failed /\ retry' = retry + 1
                      /\ nav_log' = Append(nav_log,
                                      [ok |-> FALSE, wait |-> retry_sleep(retry)])
    /\ UNCHANGED <<store, loaded, all_urls, new_urls, new_rows, i, page,
                   successful, skipped_in_progress, result, s3_before,
                   open_failed, seen, side_vars, open_pages, uploads, pacing,
                   appended>>

\* one pass of: for retry in range(3): page.goto(...)
Goto ==
    /\ pc = "goto"
    /\ fetched' = IF retry = 0 THEN Append(fetched, i) ELSE fetched
    /\ \E loaded_ok \in {TRUE} \cup (IF retry > 0 \/ CanFail THEN {FALSE} ELSE {}) :
         IF loaded_ok
         THEN /\ pc' = "extract"
              /\ nav_ok' = nav_ok \cup {new_urls[i]}
              /\ nav_log' = Append(nav_log, [ok |-> TRUE, wait |-> 0])
              /\ UNCHANGED <<retry, failed, faults>>
         ELSE /\ nav_ok' = nav_ok
              /\ faults' = IF retry = 0 THEN faults + 1 ELSE faults
              /\ IF retry = 2
                 THEN /\ pc' = "finally" /\ failed' = failed + 1 /\ retry' = retry
                      /\ nav_log' = Append(nav_log, [ok |-> FALSE, wait |-> 0])
                 ELSE /\ pc' = "goto" /\ failed' = failed /\ retry' = retry + 1
                      /\ nav_log' = Append(nav_log,
                                      [ok |-> FALSE, wait |-> retry_sleep(retry)])
    /\ UNCHANGED <<store, loaded, all_urls, new_urls, new_rows, i, page,
                   successful, skipped_in_progress, result, s3_before,
                   open_failed, seen, side_vars, open_pages, uploads, pacing,
                   appended>>

\* extract_all_auction_data and the classification of its record
Extract ==
    /\ pc = "extract"
    /\ \E shown \in Pages :
         LET data == extract_all_auction_data(shown, new_urls[i]) IN
         /\ seen' = IF /\ shown.sale_date # ""
                        /\ (shown.model # "" \/ shown.views # "" \/ shown.bids # 0)
                     THEN seen \cup {new_urls[i]} ELSE seen
         /\ IF data.sale_date = ""
            THEN /\ skipped_in_progress' = skipped_in_progress + 1
                 /\ UNCHANGED <<new_rows, successful, failed>>
            ELSE IF meaningful(data)
            THEN /\ new_rows' = Append(new_rows, data)
                 /\ successful' = successful + 1
                 /\ UNCHANGED <<skipped_in_progress, failed>>
            ELSE /\ failed' = failed + 1
                 /\ UNCHANGED <<new_rows, successful, skipped_in_progress>>
    /\ appended' = (new_rows' # new_rows)
    /\ pc' = "finally"
    /\ UNCHANGED <<store, loaded, all_urls, new_urls, i, page, retry, result,
                   faults, s3_before, fetched, open_failed, nav_ok, side_vars,
                   open_pages, uploads, pacing, nav_log>>

\* a finally block that goes on without sleeping
time_sleep_skipped(slept, secs) == slept

\* time.sleep(secs), as the seconds slept so far
time_sleep(slept, secs) == slept + secs

\* a finally block that forgets to close the page
page_close_forgotten(pages) == pages

\* page.close(): one page fewer is open in the browser context
page_close(pages) == pages - 1

\* What a call of upload_updated_cnb_csv leaves in the history: the kind
\* of the call, the iteration it was made in, its dataset and how it went.
Uploaded(kind, df, env, up) ==
    /\ last_upload' = [kind |-> kind, at |-> i, df |-> df, ret |-> up.ret,
                       copy_ok |-> env.copy_ok]
    /\ upload_failed' = (upload_failed \/ ~up.ret)

\* finally: page.close(), the pacing sleep, the checkpoint.  An exception
\* of page.close() is raised inside the finally block, so nothing catches
\* it: it leaves the loop, the with block and main().
Finally ==
    /\ pc = "finally"
    /\ \E closed \in {TRUE} \cup (IF page = "open" /\ CanFail THEN {FALSE} ELSE {}) :
         IF ~closed
         THEN /\ pc' = "fatal"
              /\ result' = "exception"
              /\ faults' = faults + 1
              /\ UNCHANGED <<store, i, page, open_pages, uploads, pacing,
                             appended>>
         ELSE /\ page' = "none"
              /\ pacing' = time_sleep(pacing, SLEEP_BETWEEN_AUCTIONS)
              /\ appended' = FALSE
              /\ open_pages' = IF page = "open" THEN page_close(open_pages)
                               ELSE open_pages
              /\ result' = result
              /\ IF checkpoint_due(new_rows)
                 THEN \E env \in UploadEnvs :
                        LET temp_df == checkpoint_df(existing_df, new_rows)
                            up == upload_updated_cnb_csv(temp_df, env)
                        IN /\ s3' = up.s3 /\ backups' = up.backups /\ now' = up.now
                           /\ faults' = faults + UploadFaults(env)
                           /\ Uploaded("checkpoint", temp_df, env, up)
                 ELSE UNCHANGED <<store, faults, uploads>>
              /\ IF i < Len(new_urls)
                 THEN i' = i + 1 /\ pc' = "new_page"
                 ELSE i' = i /\ pc' = "final_merge"
    /\ UNCHANGED <<loaded, all_urls, new_urls, new_rows, retry, counters,
                   history>>

\* after the loop: browser.close() (an exception of it leaves main()), then
\* merge, dedup, sort, upload, return
FinalMerge ==
    /\ pc = "final_merge"
    /\ \E browser_closed \in {TRUE} \cup (IF CanFail THEN {FALSE} ELSE {}) :
         IF ~browser_closed
         THEN /\ pc' = "fatal"
              /\ result' = "exception"
              /\ faults' = faults + 1
              /\ UNCHANGED <<store, uploads>>
         ELSE /\ pc' = "done"
              /\ IF new_rows # <<>>
                 THEN \E updated_df \in final_merge(existing_df, new_rows),
                         env \in UploadEnvs :
                        LET up == upload_updated_cnb_csv(updated_df, env)
                        IN /\ s3' = up.s3 /\ backups' = up.backups /\ now' = up.now
                           /\ faults' = faults + UploadFaults(env)
                           /\ result' = IF up.ret THEN "True" ELSE "False"
                           /\ Uploaded("final", updated_df, env, up)
                 ELSE result' = "True" /\ UNCHANGED <<store, faults, uploads>>
    /\ UNCHANGED <<loaded, all_urls, new_urls, new_rows, i, page, retry,
                   counters, history, open_pages, pacing, appended>>

Next ==
    \/ Load
    \/ Discover
    \/ NewPage
    \/ Goto
    \/ Extract
    \/ Finally
    \/ FinalMerge

Spec == Init /\ [][Next]_vars

\* ------------------------------------------- the two merges, input by input
\* a dedup that keeps a key's first row (if key not in unique: ...)
dedup_earliest(combined) ==
    SelectIdx(combined,
              {k \in 1..Len(combined) :
                 /\ combined[k].auction_url # ""
                 /\ \A j \in 1..(k - 1) :
                      combined[j].auction_url # combined[k].auction_url},
              1)

\* bat_scraper.save_outputs: combined = existing + new_data; a dict keyed
\* by auction_url keeps the place of a key's first row and the value of its
\* last row; rows without a key are dropped.
dedup_latest(combined) ==
    LET keyed(k) == combined[k].auction_url # ""
        firsts == {k \in 1..Len(combined) :
                     /\ keyed(k)
                     /\ \A j \in 1..(k - 1) :
                          combined[j].auction_url # combined[k].auction_url}
        latest(k) == CHOOSE j \in k..Len(combined) :
                       /\ combined[j].auction_url = combined[k].auction_url
                       /\ \A h \in (j + 1)..Len(combined) :
                            combined[h].auction_url # combined[k].auction_url
        values == [k \in 1..Len(combined) |->
                     IF k \in firsts THEN combined[latest(k)] ELSE combined[k]]
    IN SelectIdx(values, firsts, 1)

save_outputs(existing, new_data) == dedup_latest(existing \o new_data)

\* Records of ended auctions that main() accepts, as rows.
AcceptedRows ==
    {extract_all_auction_data(shown, u) :
       shown \in {q \in Pages : q.sale_date # "" /\ meaningful(q)}, u \in URLs}

\* Longest persisted dataset and longest batch of the merge check.
MaxMergeRows == 2

UniqueKeys(rows) ==
    \A j, k \in 1..Len(rows) : rows[j].auction_url = rows[k].auction_url => j = k

InitMerge ==
    /\ m_dataset \in {d \in SeqsUpTo(AcceptedRows, MaxMergeRows) : UniqueKeys(d)}
    /\ m_batch \in SeqsUpTo(AcceptedRows, MaxMergeRows) \ {<<>>}
    /\ m_bat = NotRun
    /\ m_cnb = NotRun
    /\ MainIdle
    /\ FnIdle
    /\ BatIdle
    /\ SitemapIdle

\* save_outputs(new_data) on a bat.json holding m_dataset
SaveOutputs ==
    /\ ~m_bat.done
    /\ m_bat' = [done |-> TRUE, rows |-> save_outputs(m_dataset, m_batch)]
    /\ UNCHANGED <<m_dataset, m_batch, m_cnb, cnb_vars, fn_vars, bat_vars, sm_vars>>

\* the final merge of main() on a cnb.csv holding m_dataset
CnbFinalMerge ==
    /\ ~m_cnb.done
    /\ \E updated_df \in final_merge(read_csv(to_csv(m_dataset)), m_batch) :
         m_cnb' = [done |-> TRUE, rows |-> to_csv(updated_df)]
    /\ UNCHANGED <<m_dataset, m_batch, m_bat, cnb_vars, fn_vars, bat_vars, sm_vars>>

NextMerge ==
    \/ SaveOutputs
    \/ CnbFinalMerge

SpecMerge == InitMerge /\ [][NextMerge]_vars

\* ------------------------------------------ save_outputs, write by write
\* Rows of the bat check: one record for each URL.
BatRows ==
    {extract_all_auction_data(
       [model |-> "M", views |-> "7", bids |-> 3, sale_date |-> "ended"], u) :
       u \in URLs}

\* Before save_outputs(new_data): bat.json and bat.csv hold the dataset an
\* earlier run left, or do not exist.
InitBat ==
    /\ m_dataset \in {d \in SeqsUpTo(BatRows, MaxMergeRows) : UniqueKeys(d)}
    /\ m_batch \in SeqsUpTo(BatRows, MaxMergeRows) \ {<<>>}
    /\ m_bat = NotRun
    /\ m_cnb = NotRun
    /\ MainIdle
    /\ FnIdle
    /\ SitemapIdle
    /\ bat_pc = "start"
    /\ deduped = <<>>
    /\ bat_json \in {BatFile(m_dataset)} \cup
                    (IF m_dataset = <<>> THEN {NoBatFile} ELSE {})
    /\ bat_csv = bat_json

\* existing = json.load(jf) if the file exists, else []; the dedup
BatLoad ==
    /\ bat_pc = "start"
    /\ deduped' = save_outputs(bat_json.rows, m_batch)
    /\ bat_pc' = "open_json"
    /\ UNCHANGED <<bat_json, bat_csv, merge_vars, cnb_vars, fn_vars, sm_vars>>

\* open(json_path, "w"): the file is truncated in place
BatOpenJson ==
    /\ bat_pc = "open_json"
    /\ bat_json' = [present |-> TRUE, rows |-> <<>>, whole |-> FALSE]
    /\ bat_pc' = "dump_json"
    /\ UNCHANGED <<deduped, bat_csv, merge_vars, cnb_vars, fn_vars, sm_vars>>

\* json.dump(deduped, jf): the document reaches the file piece by piece;
\* the end of the with block closes the file
BatDumpJson ==
    /\ bat_pc = "dump_json"
    /\ IF Len(bat_json.rows) < Len(deduped)
       THEN /\ bat_json' = [bat_json EXCEPT
                              !.rows = Append(@, deduped[Len(@) + 1])]
            /\ bat_pc' = bat_pc
       ELSE /\ bat_json' = [bat_json EXCEPT !.whole = TRUE]
            /\ bat_pc' = "open_csv"
    /\ UNCHANGED <<deduped, bat_csv, merge_vars, cnb_vars, fn_vars, sm_vars>>

\* open(csv_path, "w") and writer.writeheader()
BatOpenCsv ==
    /\ bat_pc = "open_csv"
    /\ bat_csv' = [present |-> TRUE, rows |-> <<>>, whole |-> FALSE]
    /\ bat_pc' = "write_csv"
    /\ UNCHANGED <<deduped, bat_json, merge_vars, cnb_vars, fn_vars, sm_vars>>

\* for row in deduped: writer.writerow(row); the end of the with block
BatWriteRow ==
    /\ bat_pc = "write_csv"
    /\ IF Len(bat_csv.rows) < Len(deduped)
       THEN /\ bat_csv' = [bat_csv EXCEPT
                             !.rows = Append(@, deduped[Len(@) + 1])]
            /\ bat_pc' = bat_pc
       ELSE /\ bat_csv' = [bat_csv EXCEPT !.whole = TRUE]
            /\ bat_pc' = "done"
    /\ UNCHANGED <<deduped, bat_json, merge_vars, cnb_vars, fn_vars, sm_vars>>

\* save_outputs fails or the process is stopped before its next write
BatInterrupt ==
    /\ bat_pc \in {"start", "open_json", "dump_json", "open_csv", "write_csv"}
    /\ bat_pc' = "interrupted"
    /\ UNCHANGED <<deduped, bat_json, bat_csv, merge_vars, cnb_vars, fn_vars, sm_vars>>

NextBat ==
    \/ BatLoad
    \/ BatOpenJson
    \/ BatDumpJson
    \/ BatOpenCsv
    \/ BatWriteRow
    \/ BatInterrupt

SpecBat == InitBat /\ [][NextBat]_vars

\* ----------------------------------------- get_sitemap_urls, step by step
\* The <loc> entries a sitemap text can hold: auction URLs and one URL
\* without "/auctions/".
Locs == URLs \cup {"other"}

\* The texts a request or page.content() can deliver: the sitemap, bare or
\* inside the <pre id="webkit-xml-viewer-source-xml"> element of the
\* browser's XML viewer.
Docs == [bound : {TRUE}, wrapper : BOOLEAN, locs : SeqsUpTo(Locs, MaxDiscovered)]

\* [loc.text for loc in soup.find_all("loc") if "/auctions/" in loc.text]
auction_locs(doc) == SelectSeq(doc.locs, LAMBDA u : u \in URLs)

InitSitemap ==
    /\ MergeIdle
    /\ MainIdle
    /\ FnIdle
    /\ BatIdle
    /\ sm_pc = "direct"
    /\ attempt = 0
    /\ xml_string = Unset
    /\ sm_result = "none"
    /\ sm_log = <<>>

\* requests.get(SITEMAP_URL): status 200, another status, or an exception
SmDirect ==
    /\ sm_pc = "direct"
    /\ \/ \E doc \in Docs : xml_string' = doc /\ sm_pc' = "unwrap"
       \/ xml_string' = xml_string /\ sm_pc' = "browser"
    /\ UNCHANGED <<attempt, sm_result, sm_log, merge_vars, cnb_vars, fn_vars, bat_vars>>

\* sync_playwright(), launch, new_context, new_page: an exception of any of
\* them is caught by the outer except, which returns []
SmBrowser ==
    /\ sm_pc = "browser"
    /\ \/ sm_pc' = "goto" /\ attempt' = 0 /\ sm_result' = sm_result
       \/ sm_pc' = "returned" /\ attempt' = attempt /\ sm_result' = <<>>
    /\ UNCHANGED <<xml_string, sm_log, merge_vars, cnb_vars, fn_vars, bat_vars>>

\* time.sleep(10) after a failed browser attempt that was not the last
sitemap_retry_sleep(n) == SITEMAP_RETRY_SLEEP

\* one pass of: for attempt in range(3): page.goto, page.content; after a
\* pass that worked, browser.close(), whose exception is caught as well
SmGoto ==
    /\ sm_pc = "goto"
    /\ \/ \E doc \in Docs, browser_closed \in BOOLEAN :
            /\ xml_string' = doc
            /\ attempt' = attempt
            /\ sm_log' = Append(sm_log, [ok |-> TRUE, wait |-> 0])
            /\ IF browser_closed
               THEN sm_pc' = "unwrap" /\ sm_result' = sm_result
               ELSE sm_pc' = "returned" /\ sm_result' = <<>>
       \/ /\ xml_string' = xml_string
          /\ IF attempt = 2
             THEN /\ sm_pc' = "returned" /\ sm_result' = <<>>
                  /\ attempt' = attempt
                  /\ sm_log' = Append(sm_log, [ok |-> FALSE, wait |-> 0])
             ELSE /\ sm_pc' = "goto" /\ sm_result' = sm_result
                  /\ attempt' = attempt + 1
                  /\ sm_log' = Append(sm_log,
                         [ok |-> FALSE, wait |-> sitemap_retry_sleep(attempt)])
    /\ UNCHANGED <<merge_vars, cnb_vars, fn_vars, bat_vars>>

\* if "<pre id=..." in xml_string: BeautifulSoup(xml_string, "html.parser"),
\* outside every try block: the parser rejecting the text raises out of
\* get_sitemap_urls
SmUnwrap ==
    /\ sm_pc = "unwrap"
    /\ IF xml_string.wrapper
       THEN \/ /\ xml_string' = [xml_string EXCEPT !.wrapper = FALSE]
               /\ sm_pc' = "parse"
               /\ sm_result' = sm_result
            \/ /\ xml_string' = xml_string
               /\ sm_pc' = "raised"
               /\ sm_result' = "exception"
       ELSE xml_string' = xml_string /\ sm_pc' = "parse" /\ sm_result' = sm_result
    /\ UNCHANGED <<attempt, sm_log, merge_vars, cnb_vars, fn_vars, bat_vars>>

\* the parse inside try: the list of auction URLs, or [] on an exception
SmParse ==
    /\ sm_pc = "parse"
    /\ sm_pc' = "returned"
    /\ \/ sm_result' = auction_locs(xml_string)
       \/ sm_result' = <<>>
    /\ UNCHANGED <<attempt, xml_string, sm_log, merge_vars, cnb_vars, fn_vars, bat_vars>>

NextSitemap ==
    \/ SmDirect
    \/ SmBrowser
    \/ SmGoto
    \/ SmUnwrap
    \/ SmParse

SpecSitemap == InitSitemap /\ [][NextSitemap]_vars

\* --------------------------------- field extraction of cnb, page by page
AmountTexts == {"", "$45,000"}
ViewsTexts == {<<>>, <<"1", ",", "2">>, <<"7">>}
RawViews == {<<>>, <<"7">>}
AuctionPages ==
    [bid_texts : [1..4 -> AmountTexts], views_text : ViewsTexts,
     raw_amount : AmountTexts, raw_views : RawViews]

\* for selector in bid_selectors: the first non-empty text, else ""
RECURSIVE first_text(_)
first_text(texts) ==
    IF texts = <<>> THEN ""
    ELSE IF Head(texts) # "" THEN Head(texts)
    ELSE first_text(Tail(texts))

\* views_element.inner_text().replace(",", "")
replace_commas(text) == SelectSeq(text, LAMBDA c : c # ",")

\* The sale_amount and views parts of extract_all_auction_data: selectors
\* only, the text of the page body is not read.
extract_fields(p) ==
    [sale_amount |-> first_text(p.bid_texts),
     views |-> replace_commas(p.views_text)]

InitFields ==
    /\ MergeIdle
    /\ MainIdle
    /\ BatIdle
    /\ SitemapIdle
    /\ YearIdle
    /\ CollectIdle
    /\ fld_pc = "page"
    /\ fld_page \in AuctionPages
    /\ fld_data = BlankData

ExtractFields ==
    /\ fld_pc = "page"
    /\ fld_pc' = "extracted"
    /\ fld_data' = extract_fields(fld_page)
    /\ UNCHANGED <<fld_page, yr_vars, col_vars, merge_vars, cnb_vars, bat_vars,
                   sm_vars>>

NextFields == ExtractFields

SpecFields == InitFields /\ [][NextFields]_vars

\* ------------------------------------- year resolution, input by input
\* Longest run of 4-digit tokens a title holds.
MaxTokens == 2

\* Four-digit numbers a URL or a title can hold: below 1900, the upper end
\* of the accepted range, above it with the prefix 20, above it without.
FourDigits == {1899, 2030, 2031, 2100}

\* A title as the patterns see it: its 4-digit tokens (\b\d{4}\b) in their
\* order, each in parentheses or not, and whether the title starts with
\* its first token followed by white space.
Tokens == [n : FourDigits, paren : BOOLEAN]
Titles ==
    {t \in [starts : BOOLEAN, tokens : SeqsUpTo(Tokens, MaxTokens)] :
       t.starts => t.tokens # <<>> /\ ~t.tokens[1].paren}
ShortTitles == {t \in Titles : Len(t.tokens) <= 1 /\ ~t.starts}

\* A URL as the patterns see it: for each pattern, in the order of the
\* code, the group (\d{4}) of its first match, or NoMatch.
Hits(n) == [1..n -> FourDigits \cup {NoMatch}]

\* A labeled group item of a bat page: its label and its text.
GroupItems ==
    {<<>>} \cup {<<[lbl |-> l, text |-> t]>> :
                   l \in {"model", "year", "era"}, t \in ShortTitles}

YearInputs ==
    [site : {"cnb"}, url_hits : Hits(3), title : Titles, group_items : {<<>>}]
    \cup [site : {"bat"}, url_hits : Hits(2), title : Titles,
          group_items : GroupItems]

\* if 1900 <= year <= 2030
in_range(year) == 1900 <= year /\ year <= 2030

\* The first element of a sequence that satisfies a test, as a position
\* (0 when there is none).
FirstIdx(seq, Test(_)) ==
    LET I == {k \in 1..Len(seq) : Test(seq[k])}
    IN IF I = {} THEN 0 ELSE CHOOSE k \in I : \A j \in I : k <= j

\* extract_year_from_url of both scrapers: the first pattern that matches
\* with a group in range decides
year_from_hits(hits) ==
    LET k == FirstIdx(hits, LAMBDA h : h # NoMatch /\ in_range(h))
    IN IF k = 0 THEN NA ELSE hits[k]

\* cnb: re.search(r'\b(19|20)\d{2}\b', data["model"]), int of the match
cnb_year_from_title(title) ==
    LET k == FirstIdx(title.tokens, LAMBDA t : t.n \div 100 \in {19, 20})
    IN IF k = 0 THEN NA ELSE title.tokens[k].n

\* cnb: data["year"] as extract_all_auction_data leaves it
cnb_year(inp) ==
    LET year == year_from_hits(inp.url_hits)
    IN IF year = NA /\ inp.title.tokens # <<>>
       THEN cnb_year_from_title(inp.title) ELSE year

\* bat: extract_year_from_title; each pattern looks at its first match only
extract_year_from_title(title) ==
    LET toks == title.tokens
        p2 == FirstIdx(toks, LAMBDA t : t.paren)
    IN IF title.starts /\ in_range(toks[1].n) THEN toks[1].n
       ELSE IF p2 # 0 /\ in_range(toks[p2].n) THEN toks[p2].n
       ELSE IF toks # <<>> /\ in_range(toks[1].n) THEN toks[1].n
       ELSE NA

\* bat: extract_year_from_group_items
extract_year_from_group_items(items) ==
    LET k == FirstIdx(items,
                      LAMBDA gi : /\ gi.lbl \in {"model", "year"}
                                  /\ extract_year_from_title(gi.text) # NA)
    IN IF k = 0 THEN NA ELSE extract_year_from_title(items[k].text)

\* bat: record["year"] as parse_auction leaves it
bat_year(inp) ==
    LET y1 == year_from_hits(inp.url_hits)
        y2 == IF y1 = NA THEN extract_year_from_title(inp.title) ELSE y1
    IN IF y2 = NA THEN extract_year_from_group_items(inp.group_items) ELSE y2

InitYear ==
    /\ MergeIdle
    /\ MainIdle
    /\ BatIdle
    /\ SitemapIdle
    /\ FieldsIdle
    /\ CollectIdle
    /\ yr_pc = "input"
    /\ yr_in \in YearInputs
    /\ yr_out = NA

CnbResolveYear ==
    /\ yr_pc = "input"
    /\ yr_in.site = "cnb"
    /\ yr_pc' = "resolved"
    /\ yr_out' = cnb_year(yr_in)
    /\ UNCHANGED <<yr_in, fld_vars, col_vars, merge_vars, cnb_vars, bat_vars,
                   sm_vars>>

BatResolveYear ==
    /\ yr_pc = "input"
    /\ yr_in.site = "bat"
    /\ yr_pc' = "resolved"
    /\ yr_out' = bat_year(yr_in)
    /\ UNCHANGED <<yr_in, fld_vars, col_vars, merge_vars, cnb_vars, bat_vars,
                   sm_vars>>

NextYear ==
    \/ CnbResolveYear
    \/ BatResolveYear

SpecYear == InitYear /\ [][NextYear]_vars


Min(a, b) == IF a < b THEN a ELSE b
\* ------------------------------------ collect_auction_urls, pass by pass
\* Scaled stand-in for MAX_AUCTIONS = 500 of bat_scraper.py; the code only
\* compares with it and slices up to it.
MAX_AUCTIONS == 3
\* Most tiles the results page shows.
MaxTiles == 4
\* Most passes of the while loop the model follows.
MaxPasses == 4
max_failures == 3

\* len(page.query_selector_all(SELECTORS["tile"])): what the page shows at
\* the moment of the call
TileCounts == 0..MaxTiles

\* cards[loaded: min(current, MAX_AUCTIONS)], as tile positions from 1
card_slice(from, current) ==
    LET to == Min(current, MAX_AUCTIONS)
    IN [k \in 1..(IF to > from THEN to - from ELSE 0) |-> from + k]

\* page.wait_for_selector(SELECTORS["tile"]) has returned
InitCollect ==
    /\ MergeIdle
    /\ MainIdle
    /\ BatIdle
    /\ SitemapIdle
    /\ FieldsIdle
    /\ YearIdle
    /\ col_pc = "query"
    /\ col_urls = <<>>
    /\ col_loaded = 0
    /\ consecutive_failures = 0
    /\ tiles \in TileCounts \ {0}
    /\ shrank = FALSE
    /\ passes = 0

\* One pass of the while loop from the count of the tiles to the click on
\* the load-more button (every tile has an href).
CollectPass ==
    /\ col_pc = "query"
    /\ passes < MaxPasses
    /\ passes' = passes + 1
    /\ \E current \in TileCounts, btn \in BOOLEAN :
         LET failures == IF current = col_loaded
                         THEN consecutive_failures + 1 ELSE 0
         IN /\ tiles' = current
            /\ shrank' = (shrank \/ current < tiles)
            /\ consecutive_failures' = failures
            /\ IF failures >= max_failures
               THEN col_pc' = "returned" /\ UNCHANGED <<col_urls, col_loaded>>
               ELSE /\ col_urls' = col_urls \o card_slice(col_loaded, current)
                    /\ col_loaded' = current
                    /\ col_pc' = IF current >= MAX_AUCTIONS \/ ~btn
                                 THEN "returned" ELSE "wait"
    /\ UNCHANGED <<fld_vars, yr_vars, merge_vars, cnb_vars, bat_vars, sm_vars>>

\* page.wait_for_function(length > loaded): it returns, or it times out
\* and the tiles are counted once more
CollectWait ==
    /\ col_pc = "wait"
    /\ \/ \E more \in {n \in TileCounts : n > col_loaded} :
            /\ tiles' = more
            /\ shrank' = shrank
            /\ col_pc' = "query"
       \/ \E new_cards \in TileCounts :
            /\ tiles' = new_cards
            /\ shrank' = (shrank \/ new_cards < tiles)
            /\ col_pc' = IF new_cards > col_loaded THEN "query" ELSE "returned"
    /\ UNCHANGED <<col_urls, col_loaded, consecutive_failures, passes,
                   fld_vars, yr_vars, merge_vars, cnb_vars, bat_vars, sm_vars>>

NextCollect ==
    \/ CollectPass
    \/ CollectWait

SpecCollect == InitCollect /\ [][NextCollect]_vars

\* ======================================================== the claims
Keys(rows) == {rows[k].auction_url : k \in 1..Len(rows)}
RowIdx(rows, u) == {k \in 1..Len(rows) : rows[k].auction_url = u}
LastIdx(rows, u) ==
    CHOOSE k \in RowIdx(rows, u) : \A j \in RowIdx(rows, u) : j <= k

\* C1: every dataset the cnb run writes to the durable copy, at a checkpoint
\* or at the final flush, holds no two rows with the same auction_url (the
\* durable copy starts with unique keys).
C1_NoDuplicateKeys == s3.present => UniqueKeys(s3.rows)

\* C2: save_outputs on a stored dataset holding key K and a batch holding K:
\* the dataset written has exactly one row for K, and it is the last row
\* the batch holds for K.
C2_LastWriteWins ==
    m_bat.done =>
      \A u \in Keys(m_dataset) \cap Keys(m_batch) :
        /\ Cardinality(RowIdx(m_bat.rows, u)) = 1
        /\ \A k \in RowIdx(m_bat.rows, u) :
             m_bat.rows[k] = m_batch[LastIdx(m_batch, u)]

\* C2 witness: save_outputs ran on a stored row for K and a batch with two
\* rows for K, the last of which differs from the stored row.
C2_Witness ==
    /\ m_bat.done
    /\ \E u \in Keys(m_dataset) \cap Keys(m_batch) :
         /\ Cardinality(RowIdx(m_batch, u)) = 2
         /\ m_dataset[LastIdx(m_dataset, u)] # m_batch[LastIdx(m_batch, u)]
         /\ \E k \in RowIdx(m_batch, u) : m_batch[k] # m_batch[LastIdx(m_batch, u)]

\* C3: after the final merge of a cnb run has been written, the row kept
\* for every auction_url is the most recently appended of the rows of
\* existing + new that share it.
C3_LastAppendedKept ==
    (pc = "done" /\ result = "True" /\ new_rows # <<>>) =>
      LET combined == concat(existing_df, new_rows) IN
      \A u \in Keys(s3.rows) :
        \A k \in RowIdx(s3.rows, u) :
          s3.rows[k] = to_csv_row(combined[LastIdx(combined, u)])

\* C4 (as claimed): merging a stored dataset with a batch whose keys are all
\* stored already yields the same set of rows, for save_outputs and for the
\* cnb final merge.
C4_SameRowSet ==
    Keys(m_batch) \subseteq Keys(m_dataset) =>
      /\ m_bat.done =>
           Len(m_bat.rows) = Len(m_dataset) /\ Range(m_bat.rows) = Range(m_dataset)
      /\ m_cnb.done =>
           Len(m_cnb.rows) = Len(m_dataset) /\ Range(m_cnb.rows) = Range(m_dataset)

\* C4 (amended): merging a stored dataset with a batch whose keys are all
\* stored already yields one row for each stored key and no other row; the
\* cnb final merge leaves every row as stored; save_outputs replaces the
\* row of each key of the batch by the batch's last row for that key and
\* leaves the other rows as stored.
C4_SameKeys ==
    Keys(m_batch) \subseteq Keys(m_dataset) =>
      /\ m_cnb.done =>
           Len(m_cnb.rows) = Len(m_dataset) /\ Range(m_cnb.rows) = Range(m_dataset)
      /\ m_bat.done =>
           /\ Len(m_bat.rows) = Len(m_dataset)
           /\ Keys(m_bat.rows) = Keys(m_dataset)
           /\ \A k \in 1..Len(m_bat.rows) :
                LET u == m_bat.rows[k].auction_url IN
                m_bat.rows[k] = IF u \in Keys(m_batch)
                                THEN m_batch[LastIdx(m_batch, u)]
                                ELSE m_dataset[LastIdx(m_dataset, u)]

\* C4 witness: both merges ran on a batch of stored keys one of whose rows
\* differs from the stored row.
C4_Witness ==
    /\ m_bat.done
    /\ m_cnb.done
    /\ Len(m_dataset) = 2
    /\ Keys(m_batch) \subseteq Keys(m_dataset)
    /\ \E k \in 1..Len(m_batch) : m_batch[k] \notin Range(m_dataset)

\* The scenario of C5: discovery returned A, B and C, the durable copy held
\* exactly key B, and every URL taken up (A and C) gave an accepted record.
C5_Scenario ==
    /\ pc = "done"
    /\ Range(all_urls) = {"A", "B", "C"}
    /\ s3_before.present
    /\ Keys(s3_before.rows) = {"B"}
    /\ Range(new_urls) = {"A", "C"}
    /\ successful = Len(new_urls)

C5_ThreeKeysBUnchanged ==
    /\ Keys(s3.rows) = {"A", "B", "C"}
    /\ Len(s3.rows) = 3
    /\ \A k \in RowIdx(s3.rows, "B") :
         s3.rows[k] = s3_before.rows[LastIdx(s3_before.rows, "B")]

C6_NoFetchOfKnown ==
    \A k \in 1..Len(fetched) : new_urls[fetched[k]] \notin existing_urls

\* C6 witness: a run fetched pages although discovery listed a known URL.
C6_Witness ==
    /\ pc = "done"
    /\ fetched # <<>>
    /\ \E k \in 1..Len(all_urls) : all_urls[k] \in existing_urls

\* The new URLs of the run in discovery order, and how many of them the
\* cap lets through.
C7_New == filter_new(all_urls, existing_urls)
C7_Taken == Min(MAX_AUCTIONS_PER_RUN, Len(C7_New))
C7_LoopOver == pc \in {"final_merge", "done"} /\ new_urls # <<>>

\* C7 (as claimed): a run fetches at most MAX_AUCTIONS_PER_RUN positions of
\* the list of new URLs, and the URLs it fetched are exactly the first
\* min(MAX_AUCTIONS_PER_RUN, n) new URLs in discovery order.
C7_FetchesFirstNew ==
    C7_LoopOver =>
      /\ Len(fetched) <= MAX_AUCTIONS_PER_RUN
      /\ [k \in 1..Len(fetched) |-> new_urls[fetched[k]]]
           = SubSeq(C7_New, 1, C7_Taken)

\* C7 (amended): the loop takes up exactly the first
\* min(MAX_AUCTIONS_PER_RUN, n) new URLs in discovery order, and fetches,
\* in that order and once each, every one of them whose page could be
\* opened and no other.
C7_TakesFirstNew ==
    /\ Len(fetched) <= MAX_AUCTIONS_PER_RUN
    /\ \A j, k \in 1..Len(fetched) : j < k => fetched[j] < fetched[k]
    /\ C7_LoopOver =>
         /\ new_urls = SubSeq(C7_New, 1, C7_Taken)
         /\ Range(fetched) \cup open_failed = 1..C7_Taken
         /\ Range(fetched) \cap open_failed = {}

\* C7 witness: a run with more new URLs than the cap went through its loop
\* and could not open the page of one of the URLs it took up.
C7_Witness ==
    /\ C7_LoopOver
    /\ Len(C7_New) > MAX_AUCTIONS_PER_RUN
    /\ Len(fetched) = MAX_AUCTIONS_PER_RUN - 1
    /\ open_failed # {}

\* A record for u was assembled from a page of an ended auction and passed
\* the acceptance test of main().
C8_Accepted(u) == u \in seen

\* C8: a URL is a key of the durable copy only if it was one before the run
\* or a record for it was assembled and accepted in this run; when the run
\* is over, every discovered URL that is neither (beyond the cap, fetch
\* failed, insufficient data, still in progress) is missing from the
\* durable copy, so the filter of the next run selects it as new.
C8_OnlyKnownOrAccepted ==
    /\ \A u \in Keys(s3.rows) : u \in Keys(s3_before.rows) \/ C8_Accepted(u)
    /\ pc = "done" =>
         \A k \in 1..Len(all_urls) :
           LET u == all_urls[k] IN
           (u \notin Keys(s3_before.rows) /\ ~C8_Accepted(u)) =>
             /\ u \notin Keys(s3.rows)
             /\ u \in Range(filter_new(all_urls,
                                        existing_urls_of(read_csv(s3.rows))))

\* C8 witness: a finished run that wrote new keys, left a URL beyond the
\* cap, counted a failure and skipped an auction in progress.
C8_Witness ==
    /\ pc = "done"
    /\ result = "True"
    /\ Len(C7_New) > MAX_AUCTIONS_PER_RUN
    /\ failed > 0
    /\ skipped_in_progress > 0
    /\ Keys(s3.rows) # Keys(s3_before.rows)
    /\ \E k \in 1..Len(all_urls) : all_urls[k] \notin Keys(s3.rows)

\* The third navigation attempt to the URL at hand fails.
C9_GivesUp == pc = "goto" /\ retry = 2 /\ pc' # "extract"

\* C9: a URL no navigation attempt succeeded for has no row in the batch
\* and, unless stored before the run, none in the durable copy; the step in
\* which its third attempt fails adds exactly 1 to failed and changes no
\* other counter, no row and no durable data, and ends in the finally
\* block; the finally block then goes on to the next URL or to the final
\* merge, with failed as it is, and the final merge makes main() return;
\* the run is aborted only by a failure of its own (the load, the
\* discovery, page.close() or browser.close() raising), never by the
\* navigation step.
C9_NavFailureIsCounted ==
    /\ [](/\ \A k \in 1..Len(new_rows) : new_rows[k].auction_url \in nav_ok
          /\ \A u \in Keys(s3.rows) : u \in Keys(s3_before.rows) \/ u \in nav_ok)
    /\ [][C9_GivesUp =>
            /\ pc' = "finally"
            /\ failed' = failed + 1
            /\ UNCHANGED <<successful, skipped_in_progress, new_rows, s3>>]_vars
    /\ [][(pc = "finally" /\ pc' # "fatal") =>
            /\ UNCHANGED <<failed, new_rows>>
            /\ IF i < Len(new_urls)
               THEN pc' = "new_page" /\ i' = i + 1
               ELSE pc' = "final_merge"]_vars
    /\ [][(pc = "final_merge" /\ pc' # "fatal") =>
            pc' = "done" /\ result' \in {"True", "False"}]_vars
    /\ [][pc' = "fatal" =>
            /\ pc \in {"start", "discover", "finally", "final_merge", "fatal"}
            /\ pc # "fatal" => faults' = faults + 1]_vars

\* C9 witness: every navigation attempt to the first URL failed, a later
\* URL gave a record, and the run ended with a successful final persist.
C9_Witness ==
    /\ pc = "done"
    /\ result = "True"
    /\ Len(fetched) >= 2
    /\ new_urls[fetched[1]] \notin nav_ok
    /\ failed = 1
    /\ successful >= 1

\* C10: a record with an empty title/model, a zero or empty view count and
\* zero bids is never in the batch and never in a dataset written to the
\* durable copy.
C10_NoEmptyRecord ==
    LET empty(r) == /\ r.model \in {"", "NaN"}
                    /\ r.views \in {"", "0", "NaN"}
                    /\ r.bids = 0
    IN /\ \A k \in 1..Len(new_rows) : ~empty(new_rows[k])
       /\ \A k \in 1..Len(s3.rows) : ~empty(s3.rows[k])

C13_BackupsWriteOnce ==
    [][\A k \in DOMAIN backups :
         k \in DOMAIN backups' /\ backups'[k] = backups[k]]_vars

\* Records of the batch that have no row in the durable copy.
C14_Absent ==
    Cardinality({k \in 1..Len(new_rows) :
                   to_csv_row(new_rows[k]) \notin Range(s3.rows)})

\* C14: between two iterations of the loop, if no upload of the run has
\* returned False, fewer than CHECKPOINT_EVERY records of the batch are
\* absent from the durable copy.
C14_LossBounded ==
    (pc = "new_page" /\ i > 1 /\ ~upload_failed) =>
      C14_Absent < CHECKPOINT_EVERY

\* C14 witness: the loop goes on after a successful checkpoint of a full
\* interval of records.
C14_Witness ==
    /\ pc = "new_page"
    /\ i > 1
    /\ ~upload_failed
    /\ last_upload.kind = "checkpoint"
    /\ Len(new_rows) = CHECKPOINT_EVERY
    /\ C14_Absent = 0

\* The rows of a dataset that are the first of their key.
FirstRows(rows) ==
    {rows[k] : k \in {h \in 1..Len(rows) :
                        \A j \in 1..(h - 1) :
                          rows[j].auction_url # rows[h].auction_url}}

\* C15: no step of a run removes a key from the durable copy,
\* and every record a checkpoint wrote is still in it after every later
\* write.
C15_RecordsKept ==
    [][/\ Keys(s3.rows) \subseteq Keys(s3'.rows)
       /\ s3 # s3_before => Range(s3.rows) \subseteq Range(s3'.rows)]_vars

\* C16: the step that ends a run which accumulated a record (main()
\* returning or raising) is a call of upload_updated_cnb_csv on the merge
\* of the loaded dataset and the batch, and main() returns True exactly
\* when that call returns True.
C16_FinalPersistAttempted ==
    [][(pc \notin {"done", "fatal"} /\ pc' \in {"done", "fatal"}
          /\ new_rows # <<>>) =>
         /\ last_upload'.kind = "final"
         /\ last_upload'.df \in final_merge(existing_df, new_rows)
         /\ (result' = "True") <=> last_upload'.ret]_vars

\* A step that calls upload_updated_cnb_csv.
C17_Attempt ==
    \/ pc = "finally" /\ pc' # "fatal" /\ checkpoint_due(new_rows)
    \/ pc = "final_merge" /\ pc' = "done" /\ new_rows # <<>>

C17_LoopGoesOn ==
    (C17_Attempt /\ pc = "finally" /\ ~last_upload'.ret) =>
      /\ new_rows' = new_rows
      /\ existing_df' = existing_df
      /\ pc' = IF i < Len(new_urls) THEN "new_page" ELSE "final_merge"

C19_NothingToProcess ==
    (pc \notin {"start", "discover", "fatal"}
       /\ Range(all_urls) \subseteq existing_urls) =>
      /\ pc = "done"
      /\ fetched = <<>>
      /\ open_pages = 0
      /\ open_failed = {}
      /\ last_upload = NoUpload
      /\ backups = <<>>
      /\ s3 = s3_before
      /\ result = IF all_urls = <<>> THEN "False" ELSE "True"

\* C19 witness: a run found every discovered URL stored already.
C19_Witness ==
    /\ pc = "done"
    /\ all_urls # <<>>
    /\ Range(all_urls) \subseteq existing_urls
    /\ result = "True"

\* C20: at most one page is open in the browser context; no page is open
\* when the loop turns to the next URL, when the loop has ended and when
\* main() has returned; the page main() holds is the one that is open.
C20_OnePageAtATime ==
    /\ open_pages \in {0, 1}
    /\ (open_pages = 1) <=> (page = "open")
    /\ pc \in {"new_page", "final_merge", "done"} => open_pages = 0

\* C20 witness: a run whose iterations ended with an accepted record, a
\* skipped auction in progress and a navigation that failed three times
\* has returned.
C20_Witness ==
    /\ pc = "done"
    /\ open_pages = 0
    /\ successful >= 1
    /\ skipped_in_progress >= 1
    /\ failed >= 1
    /\ Len(fetched) = MAX_AUCTIONS_PER_RUN
    /\ \E k \in 1..Len(fetched) : new_urls[fetched[k]] \notin nav_ok

\* C11, the cnb part: a step of a run leaves the durable copy as it was or
\* holding the whole dataset of the upload call of that step.
C11_CnbOldOrNew ==
    [][s3' = s3 \/ s3' = [present |-> TRUE, rows |-> to_csv(last_upload'.df)]]_vars

\* C11: when save_outputs has failed or was interrupted, bat.json is the
\* whole file it was before the call or the whole new dataset, and so is
\* bat.csv.
C11_OldOrNew ==
    bat_pc = "interrupted" =>
      LET old == IF m_dataset = <<>> THEN {NoBatFile, BatFile(<<>>)}
                 ELSE {BatFile(m_dataset)}
          new == BatFile(save_outputs(m_dataset, m_batch))
      IN /\ bat_json \in old \cup {new}
         /\ bat_csv \in old \cup {new}

\* C18: get_sitemap_urls never raises; when it has ended it has returned
\* a list of auction URLs, and the list is empty if neither the request nor
\* the browser delivered a text.
C18_NeverRaises ==
    /\ sm_pc # "raised"
    /\ sm_pc = "returned" =>
         /\ sm_result \in SeqsUpTo(URLs, MaxDiscovered)
         /\ ~xml_string.bound => sm_result = <<>>

\* ------------------------------------------------ pacing and navigation
\* URLs of new_urls whose iteration has run to its end.
Processed ==
    CASE pc \in {"new_page", "goto", "extract"} -> i - 1
      [] pc = "finally" -> i
      [] pc = "final_merge" -> Len(new_urls)
      [] OTHER -> successful + failed + skipped_in_progress

\* C21: when the loop turns to a URL, navigates to it or extracts from its
\* page, main() has slept SLEEP_BETWEEN_AUCTIONS once for every URL before
\* it, whatever their outcomes were; when the loop has ended it has slept
\* once for every URL.
C21_PacedBetweenUrls ==
    /\ pc \in {"new_page", "goto", "extract", "finally"} =>
         pacing = (i - 1) * SLEEP_BETWEEN_AUCTIONS
    /\ pc = "final_merge" => pacing = Len(new_urls) * SLEEP_BETWEEN_AUCTIONS

\* C21 witness: the first navigation to the third URL is due after one URL
\* was skipped as in progress and one failed.
C21_Witness ==
    /\ pc = "goto"
    /\ i = 3
    /\ nav_log = <<>>
    /\ skipped_in_progress = 1
    /\ failed = 1
    /\ pacing = 2 * SLEEP_BETWEEN_AUCTIONS

\* C24: page.goto is called at most 3 times for a URL; every call but the
\* latest failed and was followed by the same sleep of NAV_RETRY_SLEEP
\* seconds; while another call is due no call has succeeded; extraction
\* runs only when the latest call succeeded.
C24_NavigationRetries ==
    /\ Len(nav_log) <= 3
    /\ \A k \in 1..(Len(nav_log) - 1) :
         ~nav_log[k].ok /\ nav_log[k].wait = NAV_RETRY_SLEEP
    /\ pc = "goto" =>
         /\ Len(nav_log) = retry /\ retry < 3
         /\ \A k \in 1..Len(nav_log) :
              ~nav_log[k].ok /\ nav_log[k].wait = NAV_RETRY_SLEEP
    /\ pc = "extract" => nav_log # <<>> /\ nav_log[Len(nav_log)].ok

\* C24 witness: extraction is due after the third navigation succeeded.
C24_Witness ==
    /\ pc = "extract"
    /\ Len(nav_log) = 3
    /\ nav_log[3].ok

\* C28: successful + failed + skipped_in_progress is the number of URLs
\* whose iteration has run to its end (the URL at hand is counted from the
\* end of its try block on), and successful is the length of new_rows.
C28_CountersAddUp ==
    /\ successful + failed + skipped_in_progress = Processed
    /\ successful = Len(new_rows)
    /\ pc = "done" /\ new_urls # <<>> =>
         successful + failed + skipped_in_progress = Len(new_urls)

\* C28 witness: the loop has ended after one URL of each outcome.
C28_Witness ==
    /\ pc = "final_merge"
    /\ successful = 1
    /\ failed = 1
    /\ skipped_in_progress = 1
    /\ Len(new_rows) = 1

\* C29: when the load of an existing durable copy has ended with an
\* exception, the run has ended with an error, no page was fetched, no
\* backup was written and the durable copy is as it was; a run goes on
\* with an empty dataset only if there was no durable copy.
C29_LoadFailureEndsRun ==
    /\ s3_before.present /\ load_outcome.exc \in {"ClientError", "Exception"} =>
         /\ pc = "fatal"
         /\ fetched = <<>>
         /\ backups = <<>>
         /\ s3 = s3_before
    /\ load_outcome.exc \in {"ClientError", "Exception"} /\ pc # "fatal" =>
         ~s3_before.present /\ existing_df = <<>> /\ existing_urls = {}

\* ------------------------------------------------------------ checkpoints
\* The finally block at hand calls upload_updated_cnb_csv.
CheckpointCall == pc = "finally" /\ last_upload' # last_upload

\* C25: the dataset of every call of upload_updated_cnb_csv, checkpoint or
\* final flush, is ordered by year descending with the rows of unknown year
\* after the rows of known year.
C25_WrittenSorted ==
    last_upload.kind # "none" =>
      \A k \in 1..(Len(last_upload.df) - 1) :
         YearBefore(last_upload.df[k], last_upload.df[k + 1])

\* C27: the finally block of an iteration calls upload_updated_cnb_csv
\* exactly when the iteration appended a record that brought new_rows to a
\* positive multiple of CHECKPOINT_EVERY.
C27_CheckpointOncePerMultiple ==
    [][pc = "finally" /\ pc' # "fatal" =>
         (CheckpointCall <=> (appended /\ checkpoint_due(new_rows)))]_vars

\* C23: after the direct request failed, page.goto is tried at most 3
\* times, no attempt follows one that succeeded, and the sleep before each
\* further attempt is longer than the sleep before the attempt before it.
C23_BrowserBackoff ==
    /\ Len(sm_log) <= 3
    /\ \A k \in 1..(Len(sm_log) - 1) : ~sm_log[k].ok
    /\ \A k \in 1..(Len(sm_log) - 2) : sm_log[k].wait < sm_log[k + 1].wait

\* C23, the part that holds: at most 3 attempts, none after a success.
C23_AtMostThreeAttempts ==
    /\ Len(sm_log) <= 3
    /\ \A k \in 1..(Len(sm_log) - 1) : ~sm_log[k].ok

\* C22: when no bid selector yields a text and the text of the page holds
\* an amount after "Sold for", the extracted sale_amount is that amount;
\* when li span.views yields nothing and the text of the page holds a
\* number before "views", the extracted views value is that number.
C22_TextPatternFallback ==
    fld_pc = "extracted" =>
      /\ (first_text(fld_page.bid_texts) = "" /\ fld_page.raw_amount # "") =>
           fld_data.sale_amount = fld_page.raw_amount
      /\ (fld_page.views_text = <<>> /\ fld_page.raw_views # <<>>) =>
           fld_data.views = fld_page.raw_views

\* C22, what the code does: the first non-empty selector text is the
\* value, and a field no selector yields a text for is empty.
C22_SelectorsOnly ==
    fld_pc = "extracted" =>
      /\ fld_data.sale_amount \in Range(fld_page.bid_texts) \cup {""}
      /\ first_text(fld_page.bid_texts) = "" => fld_data.sale_amount = ""
      /\ fld_page.views_text = <<>> => fld_data.views = <<>>

\* C26: the year of a record, resolved by cnb from the URL patterns and the
\* title or by bat from the URL, the title and the labeled group items, is
\* unset or an integer in [1900, 2030].
C26_YearInRange ==
    yr_pc = "resolved" => yr_out = NA \/ in_range(yr_out)

\* C26, the parts that hold: the bat resolution, and the cnb resolution
\* when a URL pattern decides.
C26_BatYearInRange ==
    (yr_pc = "resolved" /\ yr_in.site = "bat") => yr_out = NA \/ in_range(yr_out)
C26_CnbUrlYearInRange ==
    (yr_pc = "resolved" /\ yr_in.site = "cnb"
       /\ year_from_hits(yr_in.url_hits) # NA) =>
      in_range(yr_out)

\* C30: collect_auction_urls holds at most MAX_AUCTIONS URLs and no tile
\* position twice, whatever tile counts the results page reports.
C30_AtMostMaxNoRepeat ==
    /\ Len(col_urls) <= MAX_AUCTIONS
    /\ Cardinality(Range(col_urls)) = Len(col_urls)

\* C30, the part that holds: while no count is below the one before it,
\* urls is the run of the first col_loaded positions, cut at MAX_AUCTIONS.
C30_HoldsWhileCountsGrow ==
    ~shrank =>
      /\ Len(col_urls) = Min(col_loaded, MAX_AUCTIONS)
      /\ \A k \in 1..Len(col_urls) : col_urls[k] = k

====
